---- MODULE Spec2Model ----
(***************************************************************************)
(* A model of the timing harness of timeit.h: the loop timer (timeit), the *)
(* repeater (repeat), the calibrator (calibrate_number_of_loops), the      *)
(* reporter (timeit_out) and the comparator (compare).                     *)
(*                                                                         *)
(* The class templates are instantiated as the tests instantiate them:     *)
(* TimeT is the clock's own duration type (a double count of the clock's   *)
(* unit), so duration_cast<TimeT> keeps the count.  Two clocks are used:   *)
(* MockExponentialClock of timeit_test.cpp, and a monotonic clock whose    *)
(* readings are chosen by the environment.  Durations are whole numbers of *)
(* clock units; quotients of durations are kept as exact fractions.        *)
(* verbose is false, the default: the diagnostic lines are not modelled.   *)
(***************************************************************************)
EXTENDS Integers, Sequences, FiniteSets

----------------------------------------------------------------------------
(* Bounds of the model *)

\* largest configured repeat count
MaxRepeat == 3

\* largest configured loop count (the tests' 10 is added to the set below)
MaxLoops == 2

\* last time point the monotonic clock reaches
MaxTime == 2

----------------------------------------------------------------------------
(* Program constants *)

default_repeat == 3

\* int number = 10;
CalibrateFirstNumber == 10

\* for (int i = 0; i < 10; ...)
CalibrateMaxAttempts == 10

\* number *= 10
CalibrateFactor == 10

\* x_seconds >= 0.2, as the fraction ThresholdNum / ThresholdDen
ThresholdNum == 1

ThresholdDen == 5

\* std::micro: microseconds per unit of a duration<double>
MicroPerUnit == 1000000

\* int is 32 bits wide: INT_MAX, and the two 16 bit halves of an int
INT_MAX == 2147483647

HalfWord == 65536

HalfWordSign == 32768

\* 1 << step is an int: the largest shift that does not overflow
MaxShift == 30

----------------------------------------------------------------------------
(* Arithmetic helpers *)

RECURSIVE Pow2(_)
Pow2(k) == IF k <= 0 THEN 1 ELSE 2 * Pow2(k - 1)

Max(a, b) == IF a < b THEN b ELSE a

Last(s) == s[Len(s)]

Range(s) == {s[k] : k \in 1 .. Len(s)}

\* the k-th smallest element of s, k counted from 0
OrderStat(s, k) ==
    CHOOSE v \in Range(s) :
        /\ Cardinality({i \in 1 .. Len(s) : s[i] < v}) <= k
        /\ Cardinality({i \in 1 .. Len(s) : s[i] <= v}) > k

\* the two's complement product n * f of 32 bit ints, computed on 16 bit
\* halves so that no intermediate value leaves the 32 bit range
WrapMul(n, f) ==
    LET lo  == n % HalfWord
        hi  == n \div HalfWord
        pl  == lo * f
        lo2 == pl % HalfWord
        hi2 == (hi * f + pl \div HalfWord) % HalfWord
    IN  IF hi2 >= HalfWordSign
        THEN (hi2 - HalfWord) * HalfWord + lo2
        ELSE hi2 * HalfWord + lo2

\* does the int product n * f overflow (n >= 0, f > 0)
MulOverflows(n, f) == n > INT_MAX \div f

RECURSIVE Insert(_, _)
Insert(x, s) ==
    IF s = <<>> THEN <<x>>
    ELSE IF x <= Head(s) THEN <<x>> \o s
    ELSE <<Head(s)>> \o Insert(x, Tail(s))

\* a sort that was left out
Unsorted(s) == s

\* std::sort(begin, end) of a vector of durations: ascending
RECURSIVE Sort(_)
Sort(s) == IF s = <<>> THEN <<>> ELSE Insert(Head(s), Sort(Tail(s)))

RECURSIVE SeqMin(_)
SeqMin(s) ==
    IF Len(s) = 1 THEN s[1]
    ELSE LET m == SeqMin(Tail(s)) IN IF s[1] <= m THEN s[1] ELSE m

RECURSIVE SeqSum(_)
SeqSum(s) == IF s = <<>> THEN 0 ELSE Head(s) + SeqSum(Tail(s))

\* a quotient a / b of doubles, kept exact
Rat(a, b) == [num |-> a, den |-> b]

RatEq(p, q) == p.den # 0 /\ q.den # 0 /\ p.num * q.den = q.num * p.den

----------------------------------------------------------------------------
(* State *)

VARIABLES
    clockKind,      \* which ClockT the templates are instantiated with
    tp,             \* the clock's current time point
    step,           \* MockExponentialClock::step
    nreads,         \* number of ClockT::now() calls so far
    op,             \* the entry point main calls
    num_iterations, \* configured repeat count
    num_loops,      \* configured loop count
    args,           \* the arguments forwarded to the subject
    pc,             \* the statement that runs next
    stack,          \* return addresses of the calls in progress
    t_func, t_num_loops, start, loop_overhead,  \* timeit::operator()
    t_obs,          \* the clock readings of the timeit call in progress
    t_calls,        \* the subject invocations of the timeit call in progress
    t_ret,          \* value returned by the last timeit call
    c_func, c_number, c_i,                      \* calibrate_number_of_loops
    c_tried,        \* loop counts the calibration in progress has measured
    c_broke,        \* the calibration left its loop by break
    c_ret,          \* value returned by the last calibration
    r_func, r_num_loops, r_iteration, r_results,\* repeat::operator()
    r_ret,          \* vector returned by the last repeat call
    number,         \* timeit_out / compare: the resolved loop count
    n1, n2,         \* compare: the two calibrated loop counts
    results,        \* timeit_out: the sample set
    results1, results2,                         \* compare: the sample sets
    best,           \* timeit_out: returned value
    ratio, ratioX,  \* compare: best ratio (returned) and median ratio
    out,            \* lines written to std::cout
    batches,        \* every finished timeit call, in order; sample is the
                    \* value it added to a sample set (0 for a calibration
                    \* attempt, which adds none)
    last,           \* the last finished timeit call, in full
    idxReads        \* every operator[] read of a sample set

clockVars == <<clockKind, tp, step, nreads>>
cfgVars   == <<op, num_iterations, num_loops, args>>
tVars     == <<t_func, t_num_loops, start, loop_overhead, t_obs, t_calls>>
cVars     == <<c_func, c_number, c_i, c_tried, c_broke>>
rVars     == <<r_func, r_num_loops, r_iteration, r_results>>
topVars   == <<number, n1, n2, results, results1, results2, best, ratio, ratioX, out, idxReads>>
retVars   == <<t_ret, c_ret, r_ret>>
logVars   == <<batches, last>>

vars == <<clockVars, cfgVars, pc, stack, tVars, cVars, rVars, topVars, retVars, logVars>>

Ops == {"timeit", "repeat", "calibrate", "timeit_out", "compare"}

ClockKinds == {"exp", "mono"}

\* the loop counts a caller configures; 0 asks timeit_out and compare to calibrate
LoopCounts == (0 .. MaxLoops) \cup {10}

RepeatCounts == 0 .. MaxRepeat

\* f() and f(2), as in the tests
ArgChoices == {<<>>, <<2>>}

\* who called timeit: the return address the call was given
ByRepeat == "r_emplace"

ByCalibrate == "c_check"

ByMain == "done"

NoCall == [num_loops |-> 0, func |-> 0, obs |-> <<>>, calls |-> <<>>, result |-> 0]

NoRat == Rat(0, 0)

Init ==
    /\ clockKind \in ClockKinds
    /\ tp = 0
    /\ step = -1
    /\ nreads = 0
    /\ op \in Ops
    /\ num_iterations \in (IF op \in {"repeat", "timeit_out", "compare"}
                           THEN RepeatCounts ELSE {default_repeat})
    /\ num_loops \in (IF op = "calibrate" THEN {0} ELSE LoopCounts)
    /\ args \in ArgChoices
    /\ pc = "main"
    /\ stack = <<>>
    /\ t_func = 0 /\ t_num_loops = 0 /\ start = 0 /\ loop_overhead = 0
    /\ t_obs = <<>> /\ t_calls = <<>> /\ t_ret = 0
    /\ c_func = 0 /\ c_number = 0 /\ c_i = 0 /\ c_tried = <<>>
    /\ c_broke = FALSE /\ c_ret = 0
    /\ r_func = 0 /\ r_num_loops = 0 /\ r_iteration = 0 /\ r_results = <<>>
    /\ r_ret = <<>>
    /\ number = 0 /\ n1 = 0 /\ n2 = 0
    /\ results = <<>> /\ results1 = <<>> /\ results2 = <<>>
    /\ best = NoRat /\ ratio = NoRat /\ ratioX = NoRat
    /\ out = <<>>
    /\ batches = <<>>
    /\ last = NoCall
    /\ idxReads = {}

----------------------------------------------------------------------------
(* The clocks *)

\* MockExponentialClock::now(): the time point after the call
ExpClockNow ==
    (IF step >= 0 THEN tp - Pow2(step) ELSE tp) + Pow2(step + 1)

\* the clock states ClockT::now() can leave behind; tp is the value returned
NowOutcomes ==
    IF clockKind = "exp"
    THEN IF step + 1 <= MaxShift
         THEN {[tp |-> ExpClockNow, step |-> step + 1]}
         ELSE {}
    ELSE {[tp |-> t, step |-> step] : t \in tp .. MaxTime}

\* ClockT::now(), c being the clock state it leaves behind
ReadClock(c) ==
    /\ tp' = c.tp
    /\ step' = c.step
    /\ nreads' = nreads + 1
    /\ t_obs' = Append(t_obs, [idx |-> nreads + 1, val |-> c.tp])
    /\ UNCHANGED clockKind

----------------------------------------------------------------------------
(* timeit::operator() *)

\* iterations of for (volatile int loop = 0; loop < num_loops; ++loop)
LoopIterations(n) == IF n > 0 THEN n ELSE 0

\* subject invocations one iteration of the second loop makes
SubjectLoopBodyCalls == 1

\* an overhead loop whose body invokes the subject as the second loop's does
EmptyLoopInvokesSubject == SubjectLoopBodyCalls

\* subject invocations one iteration of the first (empty) loop makes
EmptyLoopBodyCalls == 0

\* the arguments one invocation passes on: std::forward<Args>(args)...
ForwardArgs(a) == a

\* a result that keeps the loop overhead
TimeitResultUncorrected(sum_time, overhead) == sum_time

\* duration_cast<TimeT>(sum_time - loop_overhead)
TimeitResult(sum_time, overhead) == sum_time - overhead

\* the invocations a loop of n iterations makes, each body making k of them
LoopCalls(n, k) ==
    IF LoopIterations(n) * k > 0
    THEN <<[func |-> t_func, args |-> ForwardArgs(args),
            after |-> Len(t_obs), count |-> LoopIterations(n) * k]>>
    ELSE <<>>

\* the caller's frame: pushes the return address and enters timeit::operator()
EnterTimeit(func, n, retpc) ==
    /\ t_func' = func
    /\ t_num_loops' = n
    /\ start' = 0
    /\ loop_overhead' = 0
    /\ t_obs' = <<>>
    /\ t_calls' = <<>>
    /\ stack' = <<retpc>> \o stack
    /\ pc' = "t_now1"

\* auto start = ClockT::now();
TimeitNow1 ==
    /\ pc = "t_now1"
    /\ \E c \in NowOutcomes :
          /\ ReadClock(c)
          /\ start' = c.tp
    /\ pc' = "t_loop1"
    /\ UNCHANGED <<cfgVars, stack, t_func, t_num_loops, loop_overhead, t_calls,
                   cVars, rVars, topVars, retVars, logVars>>

\* for (...) { /* DO NOTHING */ }
TimeitEmptyLoop ==
    /\ pc = "t_loop1"
    /\ t_calls' = t_calls \o LoopCalls(t_num_loops, EmptyLoopBodyCalls)
    /\ pc' = "t_now2"
    /\ UNCHANGED <<clockVars, cfgVars, stack, t_func, t_num_loops, start,
                   loop_overhead, t_obs, cVars, rVars, topVars, retVars, logVars>>

\* auto loop_overhead = ClockT::now() - start;
TimeitNow2 ==
    /\ pc = "t_now2"
    /\ \E c \in NowOutcomes :
          /\ ReadClock(c)
          /\ loop_overhead' = c.tp - start
    /\ pc' = "t_now3"
    /\ UNCHANGED <<cfgVars, stack, t_func, t_num_loops, start, t_calls,
                   cVars, rVars, topVars, retVars, logVars>>

\* start = ClockT::now();
TimeitNow3 ==
    /\ pc = "t_now3"
    /\ \E c \in NowOutcomes :
          /\ ReadClock(c)
          /\ start' = c.tp
    /\ pc' = "t_loop2"
    /\ UNCHANGED <<cfgVars, stack, t_func, t_num_loops, loop_overhead, t_calls,
                   cVars, rVars, topVars, retVars, logVars>>

\* for (...) { std::forward<F>(func)(std::forward<Args>(args)...); }
TimeitSubjectLoop ==
    /\ pc = "t_loop2"
    /\ t_calls' = t_calls \o LoopCalls(t_num_loops, SubjectLoopBodyCalls)
    /\ pc' = "t_now4"
    /\ UNCHANGED <<clockVars, cfgVars, stack, t_func, t_num_loops, start,
                   loop_overhead, t_obs, cVars, rVars, topVars, retVars, logVars>>

\* auto sum_time = ClockT::now() - start; return duration_cast<TimeT>(...);
TimeitNow4 ==
    /\ pc = "t_now4"
    /\ \E c \in NowOutcomes :
          LET sum_time == c.tp - start
              result   == TimeitResult(sum_time, loop_overhead)
              obs      == Append(t_obs, [idx |-> nreads + 1, val |-> c.tp])
          IN  /\ tp' = c.tp
              /\ step' = c.step
              /\ nreads' = nreads + 1
              /\ t_ret' = result
              /\ last' = [num_loops |-> t_num_loops, func |-> t_func,
                          obs |-> obs, calls |-> t_calls, result |-> result]
              /\ batches' = Append(batches,
                    [func |-> t_func, loops |-> t_num_loops,
                     calls |-> SeqSum([k \in 1 .. Len(t_calls) |-> t_calls[k].count]),
                     first |-> obs[1].idx, last |-> nreads + 1,
                     sample |-> IF Head(stack) = ByCalibrate THEN 0 ELSE result,
                     by |-> Head(stack)])
    /\ pc' = Head(stack)
    /\ stack' = Tail(stack)
    /\ t_func' = 0 /\ t_num_loops' = 0 /\ start' = 0 /\ loop_overhead' = 0
    /\ t_obs' = <<>> /\ t_calls' = <<>>
    /\ UNCHANGED <<clockKind, cfgVars, cVars, rVars, topVars, c_ret, r_ret>>

----------------------------------------------------------------------------
(* repeat::operator() *)

\* a loop test that is off by one
RepeatContinuesOnceMore(iteration, iterations) == iteration <= iterations

\* iteration < num_iterations
RepeatContinues(iteration, iterations) == iteration < iterations

\* the caller's frame: pushes the return address and enters repeat::operator()
EnterRepeat(func, n, retpc) ==
    /\ r_func' = func
    /\ r_num_loops' = n
    /\ r_iteration' = 0
    /\ r_results' = <<>>
    /\ stack' = <<retpc>> \o stack
    /\ pc' = "r_test"

\* loop test true: timeit<TimeT, ClockT>{num_loops}(func, args...)
RepeatCall ==
    /\ pc = "r_test"
    /\ RepeatContinues(r_iteration, num_iterations)
    /\ EnterTimeit(r_func, r_num_loops, ByRepeat)
    /\ UNCHANGED <<clockVars, cfgVars, cVars, rVars, topVars, retVars, logVars>>

\* results.emplace_back(...); ++iteration
RepeatEmplace ==
    /\ pc = ByRepeat
    /\ r_results' = Append(r_results, t_ret)
    /\ r_iteration' = r_iteration + 1
    /\ pc' = "r_test"
    /\ UNCHANGED <<clockVars, cfgVars, stack, tVars, cVars, r_func, r_num_loops,
                   topVars, retVars, logVars>>

\* loop test false: return results;
RepeatReturn ==
    /\ pc = "r_test"
    /\ ~RepeatContinues(r_iteration, num_iterations)
    /\ r_ret' = r_results
    /\ pc' = Head(stack)
    /\ stack' = Tail(stack)
    /\ r_func' = 0 /\ r_num_loops' = 0 /\ r_iteration' = 0 /\ r_results' = <<>>
    /\ UNCHANGED <<clockVars, cfgVars, tVars, cVars, topVars, t_ret, c_ret, logVars>>

----------------------------------------------------------------------------
(* calibrate_number_of_loops::operator() *)

\* i < 10
CalibrateContinues(i) == i < CalibrateMaxAttempts

\* x_seconds >= 0.2, x_seconds being the count of x
ReachedThreshold(x) == x * ThresholdDen >= ThresholdNum

\* number *= 10 where the product fits an int
NextNumber(n) == n * CalibrateFactor

\* the caller's frame: pushes the return address and enters the calibrator
EnterCalibrate(func, retpc) ==
    /\ c_func' = func
    /\ c_number' = CalibrateFirstNumber
    /\ c_i' = 0
    /\ c_tried' = <<>>
    /\ c_broke' = FALSE
    /\ stack' = <<retpc>> \o stack
    /\ pc' = "c_test"

\* loop test true: auto x = timeit<TimeT, ClockT>{number}(func, args...)
CalibrateCall ==
    /\ pc = "c_test"
    /\ CalibrateContinues(c_i)
    /\ c_tried' = Append(c_tried, c_number)
    /\ EnterTimeit(c_func, c_number, ByCalibrate)
    /\ UNCHANGED <<clockVars, cfgVars, c_func, c_number, c_i, c_broke, rVars,
                   topVars, retVars, logVars>>

\* return number;
CalibrateReturn(broke) ==
    /\ c_ret' = c_number
    /\ c_broke' = broke
    /\ pc' = Head(stack)
    /\ stack' = Tail(stack)
    /\ UNCHANGED <<clockVars, cfgVars, tVars, c_func, c_number, c_i, c_tried,
                   rVars, topVars, t_ret, r_ret, logVars>>

\* if (x_seconds >= 0.2) break; otherwise ++i, number *= 10.
\* A product that does not fit an int is undefined behaviour: the build
\* wraps it modulo 2^32, or (-ftrapv) traps.
CalibrateCheck ==
    /\ pc = ByCalibrate
    /\ \/ /\ ReachedThreshold(t_ret)
          /\ CalibrateReturn(TRUE)
       \/ /\ ~ReachedThreshold(t_ret)
          /\ ~MulOverflows(c_number, CalibrateFactor)
          /\ c_i' = c_i + 1
          /\ c_number' = NextNumber(c_number)
          /\ pc' = "c_test"
          /\ UNCHANGED <<clockVars, cfgVars, stack, tVars, c_func, c_tried,
                         c_broke, rVars, topVars, retVars, logVars>>
       \/ /\ ~ReachedThreshold(t_ret)
          /\ MulOverflows(c_number, CalibrateFactor)
          /\ c_i' = c_i + 1
          /\ c_number' = WrapMul(c_number, CalibrateFactor)
          /\ pc' = "c_test"
          /\ UNCHANGED <<clockVars, cfgVars, stack, tVars, c_func, c_tried,
                         c_broke, rVars, topVars, retVars, logVars>>
       \/ /\ ~ReachedThreshold(t_ret)
          /\ MulOverflows(c_number, CalibrateFactor)
          /\ pc' = "trapped"
          /\ UNCHANGED <<clockVars, cfgVars, stack, tVars, cVars, rVars,
                         topVars, retVars, logVars>>

\* loop test false: return number;
CalibrateExhausted ==
    /\ pc = "c_test"
    /\ ~CalibrateContinues(c_i)
    /\ CalibrateReturn(FALSE)

----------------------------------------------------------------------------
(* Reading a sample set *)

\* what a read of a vector element past the end can yield, when it yields
GarbageDurations == {-1, 0, 1}

\* the values v[i] can yield (i counted from 0): the element, or, past the
\* end, undefined behaviour
ReadAt(v, i) == IF 0 <= i /\ i < Len(v) THEN {v[i + 1]} ELSE GarbageDurations

InRange(v, i) == 0 <= i /\ i < Len(v)

ReadRecord(who, v, i) == [by |-> who, index |-> i, size |-> Len(v)]

----------------------------------------------------------------------------
(* timeit_out::operator() *)

\* a test that never asks for calibration
NeverCalibrates(n) == FALSE

\* if (number == 0)
NeedsCalibration(n) == n = 0

\* the element of the sorted sample set reported as best
BestIndex == 0

\* auto best = results[0] / number;
BestPerLoop(sample, n) == Rat(sample, n)

\* duration<rep, std::micro>{best}.count()
ToMicro(r) == Rat(r.num * MicroPerUnit, r.den)

\* int number = num_loops; if (number == 0) number = calibrate...(func, args...)
MainTimeitOut ==
    /\ pc = "main"
    /\ op = "timeit_out"
    /\ number' = num_loops
    /\ \/ /\ NeedsCalibration(num_loops)
          /\ EnterCalibrate(1, "out_calibrated")
          /\ UNCHANGED rVars
       \/ /\ ~NeedsCalibration(num_loops)
          /\ EnterRepeat(1, num_loops, "out_report")
          /\ UNCHANGED cVars
    /\ UNCHANGED <<clockVars, cfgVars, tVars, n1, n2, results, results1, results2,
                   best, ratio, ratioX, out, idxReads, retVars, logVars>>

\* number = (value returned by the calibrator); auto results{repeat{...}(...)}
OutCalibrated ==
    /\ pc = "out_calibrated"
    /\ number' = c_ret
    /\ EnterRepeat(1, c_ret, "out_report")
    /\ UNCHANGED <<clockVars, cfgVars, tVars, cVars, n1, n2, results, results1,
                   results2, best, ratio, ratioX, out, idxReads, retVars, logVars>>

\* std::sort; best = results[0] / number; std::cout << ...; return best;
\* results[0] of an empty vector is undefined behaviour: the read faults, or
\* yields whatever lies there.
OutReport ==
    /\ pc = "out_report"
    /\ results' = Sort(r_ret)
    /\ idxReads' = idxReads \cup {ReadRecord("timeit_out", r_ret, BestIndex)}
    /\ \/ /\ \E sample \in ReadAt(Sort(r_ret), BestIndex) :
                /\ best' = BestPerLoop(sample, number)
                /\ out' = Append(out, [loops |-> number, repeats |-> num_iterations,
                                       usec |-> ToMicro(BestPerLoop(sample, number))])
          /\ pc' = "done"
       \/ /\ ~InRange(r_ret, BestIndex)
          /\ pc' = "crashed"
          /\ UNCHANGED <<best, out>>
    /\ UNCHANGED <<clockVars, cfgVars, stack, tVars, cVars, rVars, number, n1, n2,
                   results1, results2, ratio, ratioX, retVars, logVars>>

----------------------------------------------------------------------------
(* compare::operator() *)

\* the smaller of the two calibrated loop counts
SharedNumberMin(a, b) == IF a < b THEN a ELSE b

\* number = std::max(n1, n2);
SharedNumber(a, b) == Max(a, b)

\* the lower median index
MedianIndexLower(iterations) == (iterations - 1) \div 2

\* num_iterations / 2
MedianIndex(iterations) == iterations \div 2

\* int number = num_loops; if (number == 0) { int n1 = calibrate...(func1, ...)
MainCompare ==
    /\ pc = "main"
    /\ op = "compare"
    /\ number' = num_loops
    /\ \/ /\ NeedsCalibration(num_loops)
          /\ EnterCalibrate(1, "cmp_calibrated1")
          /\ UNCHANGED rVars
       \/ /\ ~NeedsCalibration(num_loops)
          /\ EnterRepeat(1, num_loops, "cmp_repeated1")
          /\ UNCHANGED cVars
    /\ UNCHANGED <<clockVars, cfgVars, tVars, n1, n2, results, results1, results2,
                   best, ratio, ratioX, out, idxReads, retVars, logVars>>

\* n1 = (value returned); int n2 = calibrate...(func2, args...)
CompareCalibrated1 ==
    /\ pc = "cmp_calibrated1"
    /\ n1' = c_ret
    /\ EnterCalibrate(2, "cmp_calibrated2")
    /\ UNCHANGED <<clockVars, cfgVars, tVars, rVars, number, n2, results, results1,
                   results2, best, ratio, ratioX, out, idxReads, retVars, logVars>>

\* n2 = (value returned); number = std::max(n1, n2); auto results1{repeat...(func1
CompareCalibrated2 ==
    /\ pc = "cmp_calibrated2"
    /\ n2' = c_ret
    /\ number' = SharedNumber(n1, c_ret)
    /\ EnterRepeat(1, SharedNumber(n1, c_ret), "cmp_repeated1")
    /\ UNCHANGED <<clockVars, cfgVars, tVars, cVars, n1, results, results1,
                   results2, best, ratio, ratioX, out, idxReads, retVars, logVars>>

\* results1 = (vector returned); auto results2{repeat...(func2, args...)}
CompareRepeated1 ==
    /\ pc = "cmp_repeated1"
    /\ results1' = r_ret
    /\ EnterRepeat(2, number, "cmp_report")
    /\ UNCHANGED <<clockVars, cfgVars, tVars, cVars, number, n1, n2, results,
                   results2, best, ratio, ratioX, out, idxReads, retVars, logVars>>

\* std::sort both; best1, median1, best2, median2; ratio = best1 / best2;
\* ratioX = median1 / median2; std::cout << ...; return ratio;
\* An index past the end of a sample set is undefined behaviour.
CompareReport ==
    /\ pc = "cmp_report"
    /\ results1' = Sort(results1)
    /\ results2' = Sort(r_ret)
    /\ idxReads' = idxReads \cup
          {ReadRecord("compare", results1, BestIndex),
           ReadRecord("compare", results1, MedianIndex(num_iterations)),
           ReadRecord("compare", r_ret, BestIndex),
           ReadRecord("compare", r_ret, MedianIndex(num_iterations))}
    /\ \/ /\ \E best1 \in ReadAt(Sort(results1), BestIndex),
                median1 \in ReadAt(Sort(results1), MedianIndex(num_iterations)),
                best2 \in ReadAt(Sort(r_ret), BestIndex),
                median2 \in ReadAt(Sort(r_ret), MedianIndex(num_iterations)) :
                /\ ratio' = Rat(best1, best2)
                /\ ratioX' = Rat(median1, median2)
                /\ out' = Append(out, [loops |-> number, repeats |-> num_iterations,
                                       ratio |-> Rat(best1, best2),
                                       median |-> Rat(median1, median2)])
          /\ pc' = "done"
       \/ /\ ~InRange(results1, BestIndex)
          /\ pc' = "crashed"
          /\ UNCHANGED <<ratio, ratioX, out>>
    /\ UNCHANGED <<clockVars, cfgVars, stack, tVars, cVars, rVars, number, n1, n2,
                   results, best, retVars, logVars>>

----------------------------------------------------------------------------
(* main: the entry points *)

\* timeit<TimeT, ClockT>{num_loops}(f, args...)
MainTimeit ==
    /\ pc = "main"
    /\ op = "timeit"
    /\ EnterTimeit(1, num_loops, ByMain)
    /\ UNCHANGED <<clockVars, cfgVars, cVars, rVars, topVars, retVars, logVars>>

\* repeat<TimeT, ClockT>{num_iterations, num_loops}(f, args...)
MainRepeat ==
    /\ pc = "main"
    /\ op = "repeat"
    /\ EnterRepeat(1, num_loops, "done")
    /\ UNCHANGED <<clockVars, cfgVars, tVars, cVars, topVars, retVars, logVars>>

\* calibrate_number_of_loops<TimeT, ClockT>{}(f, args...)
MainCalibrate ==
    /\ pc = "main"
    /\ op = "calibrate"
    /\ EnterCalibrate(1, "done")
    /\ UNCHANGED <<clockVars, cfgVars, tVars, rVars, topVars, retVars, logVars>>

Next ==
    \/ MainTimeit
    \/ MainRepeat
    \/ MainCalibrate
    \/ MainTimeitOut
    \/ MainCompare
    \/ RepeatCall
    \/ RepeatEmplace
    \/ RepeatReturn
    \/ CalibrateCall
    \/ CalibrateCheck
    \/ CalibrateExhausted
    \/ OutCalibrated
    \/ OutReport
    \/ CompareCalibrated1
    \/ CompareCalibrated2
    \/ CompareRepeated1
    \/ CompareReport
    \/ TimeitNow1
    \/ TimeitEmptyLoop
    \/ TimeitNow2
    \/ TimeitNow3
    \/ TimeitSubjectLoop
    \/ TimeitNow4

Spec == Init /\ [][Next]_vars

----------------------------------------------------------------------------
(* Views of the log used by the properties *)

CalibrationBatches == SelectSeq(batches, LAMBDA b : b.by = ByCalibrate)

RepeatBatches == SelectSeq(batches, LAMBDA b : b.by = ByRepeat)

\* the samples the repeater collected for subject f, in the order of the batches
SamplesOf(f) ==
    LET sel == SelectSeq(batches, LAMBDA b : b.by = ByRepeat /\ b.func = f)
    IN  [k \in 1 .. Len(sel) |-> sel[k].sample]

ReadingsOf(call) == [k \in 1 .. Len(call.obs) |-> call.obs[k].val]

InvocationsOf(call) == SeqSum([k \in 1 .. Len(call.calls) |-> call.calls[k].count])

----------------------------------------------------------------------------
(* Properties *)

\* C1: every finished loop-timer call has taken exactly four consecutive clock
\* readings t1, t2, t3, t4 and returned (t4 - t3) - (t2 - t1), whatever the loop
\* count: not divided by it, not clamped at zero.  Under the exponential clock
\* the first call reads 1, 2, 4, 8 and returns 3.
C1_LoopTimerResult ==
    /\ Len(t_obs) <= 3
    /\ last # NoCall =>
          /\ Len(last.obs) = 4
          /\ \A k \in 1 .. 3 : last.obs[k + 1].idx = last.obs[k].idx + 1
          /\ last.result = (last.obs[4].val - last.obs[3].val)
                           - (last.obs[2].val - last.obs[1].val)
          /\ t_ret = last.result
    /\ (clockKind = "exp" /\ last # NoCall /\ last.obs[1].idx = 1) =>
          /\ ReadingsOf(last) = <<1, 2, 4, 8>>
          /\ t_ret = 3

\* C1 witness: the loop timer run with N = 10 under the exponential clock
\* has returned 3.
C1_Witness ==
    /\ clockKind = "exp" /\ op = "timeit" /\ pc = "done"
    /\ last.num_loops = 10
    /\ ReadingsOf(last) = <<1, 2, 4, 8>>
    /\ t_ret = 3

\* a loop-timer call has returned a negative duration
C1_NegativeReached ==
    /\ op = "timeit" /\ pc = "done" /\ last.num_loops >= 1 /\ t_ret < 0

\* C2: a loop-timer call with loop count N >= 1 invokes the subject exactly N
\* times, each time with the configured arguments, all of them after the third
\* clock reading and before the fourth; none in the overhead loop between the
\* first and the second reading.
C2_SubjectInvocations ==
    /\ \A k \in 1 .. Len(t_calls) : t_calls[k].after = 3
    /\ (last # NoCall /\ last.num_loops >= 1) =>
          /\ InvocationsOf(last) = last.num_loops
          /\ \A k \in 1 .. Len(last.calls) :
                /\ last.calls[k].after = 3
                /\ last.calls[k].args = args
                /\ last.calls[k].func = last.func

\* C2 witness: a finished call with N = 10 and the argument 2 has made its
\* ten invocations.
C2_Witness ==
    /\ op = "timeit" /\ pc = "done"
    /\ last.num_loops = 10
    /\ args = <<2>>
    /\ InvocationsOf(last) = 10
    /\ last.calls[1].args = <<2>>

\* C3: the repeater runs exactly R loop-timer calls, one after another, all
\* with the configured N; the k-th (from 0) takes the clock readings 4k+1 to
\* 4k+4; it returns the R samples in the order of the batches.  Under the
\* exponential clock R = 2, N = 1 gives <<3, 48>>.
C3_Repeater ==
    op = "repeat" =>
       /\ Len(batches) <= num_iterations
       /\ \A k \in 1 .. Len(batches) :
             /\ batches[k].by = ByRepeat
             /\ batches[k].loops = num_loops
             /\ batches[k].first = 4 * (k - 1) + 1
             /\ batches[k].last = 4 * (k - 1) + 4
       /\ pc = "done" =>
             /\ Len(batches) = num_iterations
             /\ Len(r_ret) = num_iterations
             /\ r_ret = [k \in 1 .. Len(batches) |-> batches[k].sample]
       /\ (pc = "done" /\ clockKind = "exp" /\ num_iterations = 2 /\ num_loops = 1)
             => r_ret = <<3, 48>>

\* C3 witness: the repeater with R = 2, N = 1 under the exponential clock has
\* returned <<3, 48>>.
C3_Witness ==
    /\ op = "repeat" /\ pc = "done" /\ clockKind = "exp"
    /\ num_iterations = 2 /\ num_loops = 1
    /\ Len(batches) = 2
    /\ r_ret = <<3, 48>>

\* C4: with R >= 1 the reporter returns, and prints in its one summary line
\* together with N and R, the smallest sample divided by the resolved loop
\* count N.  Under the exponential clock R = 2, N = 1 returns 3, and R = 3,
\* N = 2 prints 2 loops, best of 3, 1.5e+06 usec.
C4_ReporterBest ==
    (op = "timeit_out" /\ pc = "done" /\ num_iterations >= 1) =>
       LET s == SamplesOf(1)
       IN  /\ Len(s) = num_iterations
           /\ \A k \in 1 .. Len(RepeatBatches) : RepeatBatches[k].loops = number
           /\ best = Rat(SeqMin(s), number)
           /\ out = <<[loops |-> number, repeats |-> num_iterations,
                       usec |-> Rat(SeqMin(s) * MicroPerUnit, number)]>>
           /\ (clockKind = "exp" /\ num_iterations = 2 /\ num_loops = 1)
                 => RatEq(best, Rat(3, 1))
           /\ (clockKind = "exp" /\ num_iterations = 3 /\ num_loops = 2)
                 => /\ RatEq(best, Rat(3, 2))
                    /\ out[1].loops = 2
                    /\ out[1].repeats = 3
                    /\ RatEq(out[1].usec, Rat(1500000, 1))

\* C4 witness: the reporter with R = 3, N = 2 under the exponential clock has
\* printed its line.
C4_Witness ==
    /\ op = "timeit_out" /\ pc = "done" /\ clockKind = "exp"
    /\ num_iterations = 3 /\ num_loops = 2
    /\ Len(out) = 1
    /\ RatEq(out[1].usec, Rat(1500000, 1))

\* the reporter has returned a best that is not its first sample
C4_MinNotFirstReached ==
    /\ op = "timeit_out" /\ pc = "done" /\ num_iterations >= 2
    /\ SeqMin(SamplesOf(1)) < SamplesOf(1)[1]

\* C5: the reporter calibrates exactly when its configured loop count is 0;
\* the calibration batches come before every measured batch, add nothing to
\* the sample set, and the measured batches all use the calibrated N.  Under
\* the exponential clock R = 1, N = 0 calibrates to 10 in one batch, measures
\* 48, returns 48 / 10 = 4.8 and invokes the subject 20 times.
C5_ReporterCalibration ==
    op = "timeit_out" =>
       /\ (Len(CalibrationBatches) > 0 \/ c_tried # <<>>) => num_loops = 0
       /\ (num_loops = 0 /\ (Len(RepeatBatches) > 0 \/ pc \in {"done", "crashed"}))
             => Len(CalibrationBatches) > 0
       /\ \A i, j \in 1 .. Len(batches) :
             (i < j /\ batches[i].by = ByRepeat) => batches[j].by = ByRepeat
       /\ \A k \in 1 .. Len(RepeatBatches) :
             RepeatBatches[k].loops = (IF num_loops = 0 THEN c_ret ELSE num_loops)
       /\ pc = "done" =>
             /\ Len(RepeatBatches) = num_iterations
             /\ Len(results) = num_iterations
             /\ number = (IF num_loops = 0 THEN c_ret ELSE num_loops)
       /\ (pc = "done" /\ clockKind = "exp" /\ num_iterations = 1 /\ num_loops = 0)
             => /\ c_tried = <<10>>
                /\ number = 10
                /\ results = <<48>>
                /\ best = Rat(48, 10)
                /\ RatEq(best, Rat(24, 5))
                /\ SeqSum([k \in 1 .. Len(batches) |-> batches[k].calls]) = 20

\* C5 witness: the reporter with R = 1, N = 0 under the exponential clock has
\* returned 48 / 10 after one calibration batch.
C5_Witness ==
    /\ op = "timeit_out" /\ pc = "done" /\ clockKind = "exp"
    /\ num_iterations = 1 /\ num_loops = 0
    /\ Len(CalibrationBatches) = 1
    /\ best = Rat(48, 10)

\* the part of C6 about the loop counts: the attempts use 10, 100, 1000, ...,
\* each ten times the one before
C6_LoopCountsArePowersOfTen ==
    /\ Len(c_tried) >= 1 => c_tried[1] = 10
    /\ \A k \in 1 .. Len(c_tried) - 1 :
          /\ c_tried[k + 1] \div 10 = c_tried[k]
          /\ c_tried[k + 1] % 10 = 0

\* the rest of C6: one measurement per attempt, at most 10 of them, a further
\* attempt only after a measurement below 0.2, and after a measurement of at
\* least 0.2 the loop count of that attempt is returned with no measurement
\* after it
C6_StopsAtThreshold ==
    /\ Len(c_tried) <= 10
    /\ (pc = "c_test" /\ c_i > 0) => last.result * 5 < 1
    /\ op = "calibrate" =>
          /\ Len(batches) <= Len(c_tried)
          /\ \A k \in 1 .. Len(batches) :
                batches[k].by = ByCalibrate /\ batches[k].loops = c_tried[k]
          /\ pc = "done" => Len(batches) = Len(c_tried)
          /\ (pc = "done" /\ c_broke) =>
                /\ last.result * 5 >= 1
                /\ c_ret = Last(c_tried)
                /\ c_ret = Last(batches).loops

\* C6: the calibrator tries the loop counts 10, 100, 1000, ... in that order,
\* one loop-timer measurement per attempt, stops at the first measurement of at
\* least 0.2 and returns the loop count of that attempt, and never makes more
\* than 10 measurements.
C6_CalibratorSearch ==
    /\ C6_LoopCountsArePowersOfTen
    /\ C6_StopsAtThreshold

\* C7: when none of the 10 attempts reaches 0.2, the calibrator returns the
\* loop count of its 10th attempt, and that loop count is 10^10
\* (10^10 = 100000 * 100000).
C7_FallbackReturnsLastTried ==
    (op = "calibrate" /\ pc = "done" /\ ~c_broke) =>
       /\ Len(c_tried) = 10
       /\ c_ret = Last(c_tried)
       /\ c_ret \div 100000 = 100000
       /\ c_ret % 100000 = 0

\* C8: configured with loop count 0 the comparator calibrates subject a, then
\* subject b starting again from 10, and runs every measured batch with
\* max(n1, n2); configured with another loop count it calibrates nothing and
\* runs every measured batch with that count.  It measures R batches of a and
\* then R batches of b.
C8_ComparatorSharedLoops ==
    op = "compare" =>
       LET cal == CalibrationBatches
           rep == RepeatBatches
           firstB == {k \in 1 .. Len(cal) :
                        cal[k].func = 2 /\ (k = 1 \/ cal[k - 1].func = 1)}
       IN  /\ num_loops # 0 =>
                 /\ Len(cal) = 0
                 /\ \A k \in 1 .. Len(rep) : rep[k].loops = num_loops
           /\ num_loops = 0 =>
                 /\ \A i, j \in 1 .. Len(cal) :
                       (i < j /\ cal[i].func = 2) => cal[j].func = 2
                 /\ \A k \in firstB : k > 1 /\ cal[k].loops = 10
                 /\ \A i, j \in 1 .. Len(batches) :
                       (i < j /\ batches[i].by = ByRepeat) => batches[j].by = ByRepeat
                 /\ Len(rep) > 0 =>
                       /\ \E k \in 1 .. Len(cal) : cal[k].func = 1
                       /\ \E k \in 1 .. Len(cal) : cal[k].func = 2
                       /\ \A k \in 1 .. Len(rep) : rep[k].loops = Max(n1, n2)
                       /\ number = Max(n1, n2)
           /\ \A i, j \in 1 .. Len(rep) :
                 (i < j /\ rep[i].func = 2) => rep[j].func = 2
           /\ pc = "done" =>
                 /\ Len(rep) = 2 * num_iterations
                 /\ Len(SamplesOf(1)) = num_iterations
                 /\ Len(SamplesOf(2)) = num_iterations

\* C8 witness: the comparator, configured with loop count 0, has calibrated a
\* to fewer loops than b and finished its measurements.
C8_Witness ==
    /\ op = "compare" /\ pc = "done"
    /\ num_loops = 0 /\ num_iterations >= 1
    /\ n1 < n2
    /\ Len(RepeatBatches) = 2 * num_iterations
    /\ RepeatBatches[1].loops = n2

\* C9: with R >= 1 the comparator sorts each sample set by itself, returns
\* (smallest of a) / (smallest of b) and reports as median ratio the quotient
\* of the elements of rank R div 2 (from 0) of the two sorted sets: for even R
\* the upper of the two middle samples.
C9_ComparatorRatios ==
    (op = "compare" /\ pc = "done" /\ num_iterations >= 1) =>
       LET s1 == SamplesOf(1)
           s2 == SamplesOf(2)
           m  == num_iterations \div 2
       IN  /\ Len(s1) = num_iterations
           /\ Len(s2) = num_iterations
           /\ results1 = [k \in 1 .. Len(s1) |-> OrderStat(s1, k - 1)]
           /\ results2 = [k \in 1 .. Len(s2) |-> OrderStat(s2, k - 1)]
           /\ ratio = Rat(SeqMin(s1), SeqMin(s2))
           /\ ratioX = Rat(OrderStat(s1, m), OrderStat(s2, m))
           /\ out = <<[loops |-> number, repeats |-> num_iterations,
                       ratio |-> ratio, median |-> ratioX]>>

\* C9 witness: the comparator with R = 2 has finished with two different
\* samples of a, the larger of which is its median.
C9_Witness ==
    /\ op = "compare" /\ pc = "done"
    /\ num_iterations = 2
    /\ results1[1] < results1[2]
    /\ ratioX.num = results1[2]

\* C10: every read of a sample set by the reporter or the comparator is at an
\* index below the number of samples, for every repeat count R >= 0.
C10_ReadsInRange ==
    \A r \in idxReads : 0 <= r.index /\ r.index < r.size

====
